---- MODULE Spec2Model ----
(***************************************************************************)
(* Model of the paste scraper: the typed key-value store of kvstore.go     *)
(* (a gob-encoding wrapper around a BoltDB handle) and the poll loop with  *)
(* its in-memory key cache (cleanKeys, get, scrape, main).                 *)
(***************************************************************************)
EXTENDS Integers, Sequences, FiniteSets, TLC

VARIABLES
    db,      \* the *bolt.DB behind KVStore.db: [open, buckets]
    last,    \* one caller: the last call made on the store and its result
    cur,     \* concurrent callers: each goroutine's call and its result
    puts,    \* history: per entry, the values put since its last removal
    keys,    \* conf.keys: identifier -> time it was last marked
    now,     \* what time.Now() returns
    lastK,   \* the last call made on the key cache and its result
    pc,      \* where main's loop is
    pastes,  \* scrape's slice of fetched pastes
    idx,     \* scrape's loop index over pastes (from 1)
    item,    \* the last paste scrape's loop reached: [id, seen, handed]
    cycle,   \* history of main's present cycle: [fetch, handed, slept, passes]
    sweep    \* cleanKeys' range loop: [on, t, todo, from]

kvVars == <<db, last>>
concVars == <<cur, puts>>
cacheVars == <<keys, now, lastK>>
loopVars == <<pc, pastes, idx, item, cycle, sweep>>
vars ==
    <<db, last, cur, puts, keys, now, lastK, pc, pastes, idx, item, cycle,
      sweep>>

(***************************************************************************)
(* Inputs.  Keys are byte strings (sequences of byte codes), so that the   *)
(* cursor's ordering is the bytewise ordering BoltDB uses.                 *)
(***************************************************************************)
Buckets == {"a", "b"}
NoName == ""                   \* the empty bucket name, which bolt refuses
BucketNames == Buckets \cup {NoName}

KeyEmpty == << >>              \* ""
KeyK == << 107 >>              \* "k"
KeyKx == << 107, 120 >>        \* "kx": has "k" as a proper prefix
Keys == {KeyEmpty, KeyK, KeyKx}

\* Go values handed to Put as interface{}: untyped nil, an int, a struct
\* {A, B int}, and a channel (a type gob cannot encode).
NilV == [kind |-> "nil", a |-> 0, b |-> 0]
IntV(n) == [kind |-> "int", a |-> n, b |-> 0]
StructV(x, y) == [kind |-> "struct", a |-> x, b |-> y]
ChanV == [kind |-> "chan", a |-> 0, b |-> 0]
Values == {NilV, IntV(0), IntV(42), StructV(7, 0), ChanV}

\* Destinations handed to Get as interface{}: untyped nil, or a pointer to a
\* variable with its present content.
DNil == [ptr |-> FALSE, elem |-> NilV]
Ptr(v) == [ptr |-> TRUE, elem |-> v]
Dests == {DNil, Ptr(IntV(9)), Ptr(StructV(0, 0)), Ptr(StructV(3, 5))}

\* Concurrent callers: goroutines that put two structs with no field in
\* common under the keys of one bucket, and read into a fresh struct.
NumProcs == 2
ConcBuckets == {"a"}
ConcKeys == {KeyK, KeyKx}
ConcValues == {StructV(7, 0), StructV(0, 5)}
ConcDest == Ptr(StructV(0, 0))

\* Error values.
OK == "nil"
ErrNotFound == "skv: key not found"
ErrBadValue == "skv: bad value"
ErrDatabaseNotOpen == "database not open"
ErrKeyRequired == "key required"
ErrBucketNameRequired == "bucket name required"
ErrDecode == "gob: type mismatch"
Panic == "panic: nil pointer dereference"

(***************************************************************************)
(* encoding/gob.  A top-level non-struct value is always transmitted; of a *)
(* struct only the fields that are not zero are transmitted, as            *)
(* (field number, value) pairs.  A channel cannot be encoded.              *)
(***************************************************************************)
NoBytes == [t |-> "none", f |-> {}]

CanEncode(v) == v.kind \in {"int", "struct"}

Encode(v) ==
    IF v.kind = "int" THEN [t |-> "int", f |-> {<<0, v.a>>}]
    ELSE [t |-> "struct",
          f |-> {p \in {<<1, v.a>>, <<2, v.b>>} : p[2] # 0}]

\* Decode(e) with e == nil reads the value and discards it.  Otherwise the
\* wire type must match the pointed-to type; a struct field that was not
\* transmitted keeps what the destination held.
FieldOr(f, n, old) ==
    IF \E p \in f : p[1] = n THEN (CHOOSE p \in f : p[1] = n)[2] ELSE old

Decode(bytes, dest) ==
    IF ~dest.ptr THEN [err |-> OK, dest |-> dest]
    ELSE IF dest.elem.kind # bytes.t THEN [err |-> ErrDecode, dest |-> dest]
    ELSE IF bytes.t = "int"
        THEN [err |-> OK, dest |-> Ptr(IntV(FieldOr(bytes.f, 0, 0)))]
    ELSE [err |-> OK,
          dest |-> Ptr(StructV(FieldOr(bytes.f, 1, dest.elem.a),
                               FieldOr(bytes.f, 2, dest.elem.b)))]

(***************************************************************************)
(* BoltDB as the store uses it.  db.buckets maps the name of every bucket  *)
(* that exists to its entries, a function from keys to stored bytes.       *)
(***************************************************************************)
EmptyBucket == [x \in {} |-> NoBytes]

RECURSIVE BytesLess(_, _)
BytesLess(x, y) ==
    IF x = << >> THEN y # << >>
    ELSE IF y = << >> THEN FALSE
    ELSE IF x[1] # y[1] THEN x[1] < y[1]
    ELSE BytesLess(Tail(x), Tail(y))

BytesLeq(x, y) == x = y \/ BytesLess(x, y)

\* A creation that makes the bucket anew, empty, when it exists already.
CreateBucket_Anew(bs, bucket) ==
    IF bucket = NoName THEN [err |-> ErrBucketNameRequired, bs |-> bs]
    ELSE [err |-> OK,
          bs |-> [x \in DOMAIN bs \cup {bucket} |->
                     IF x = bucket THEN EmptyBucket ELSE bs[x]]]

\* tx.CreateBucketIfNotExists: an empty name is refused; an existing bucket
\* is returned as it is.
CreateBucketIfNotExists(bs, bucket) ==
    IF bucket = NoName THEN [err |-> ErrBucketNameRequired, bs |-> bs]
    ELSE IF bucket \in DOMAIN bs THEN [err |-> OK, bs |-> bs]
    ELSE [err |-> OK, bs |-> bs @@ (bucket :> EmptyBucket)]

\* Cursor.Seek: the first key at or after the sought key, nil if none.
Seek(bkt, key) ==
    LET after == {x \in DOMAIN bkt : BytesLeq(key, x)}
    IN  IF after = {} THEN [nil |-> TRUE, k |-> << >>, v |-> NoBytes]
        ELSE LET k == CHOOSE x \in after : \A y \in after : BytesLeq(x, y)
             IN  [nil |-> FALSE, k |-> k, v |-> bkt[k]]

\* Bucket.Put: an empty key is refused.
BucketPut(bkt, key, bytes) ==
    IF key = << >> THEN [err |-> ErrKeyRequired, bkt |-> bkt]
    ELSE [err |-> OK,
          bkt |-> [x \in DOMAIN bkt \cup {key} |->
                      IF x = key THEN bytes ELSE bkt[x]]]

\* A cursor whose Delete leaves the entry in place.
CursorDelete_Keep(bkt, k) == bkt

\* Cursor.Delete: removes the entry the cursor is on.
CursorDelete(bkt, k) == [x \in DOMAIN bkt \ {k} |-> bkt[x]]

(***************************************************************************)
(* The store's methods as functions of the handle: each returns the error  *)
(* and the handle (and destination) it leaves.  A panic inside db.View or  *)
(* db.Update rolls the transaction back and reaches the caller; it is      *)
(* recorded as the call's outcome, and the handle stays usable for a       *)
(* caller that recovers.                                                   *)
(***************************************************************************)
\* AddBucket on a handle that does not refuse transactions once closed.
AddBucketTx_NoOpenCheck(d, bucket) ==
    LET c == CreateBucketIfNotExists(d.buckets, bucket)
    IN  IF c.err # OK THEN [err |-> c.err, db |-> d]
        ELSE [err |-> OK, db |-> [d EXCEPT !.buckets = c.bs]]

\* kvs.AddBucket: the error of the transaction, or of the creation in it
\* (which rolls the transaction back), is returned.
AddBucketTx(d, bucket) ==
    IF ~d.open THEN [err |-> ErrDatabaseNotOpen, db |-> d]
    ELSE LET c == CreateBucketIfNotExists(d.buckets, bucket)
         IN  IF c.err # OK THEN [err |-> c.err, db |-> d]
             ELSE [err |-> OK, db |-> [d EXCEPT !.buckets = c.bs]]

\* the write transaction that ends kvs.Put
PutTx(d, bucket, key, bytes) ==
    IF ~d.open THEN [err |-> ErrDatabaseNotOpen, db |-> d]
    ELSE LET r == BucketPut(d.buckets[bucket], key, bytes)
         IN  IF r.err # OK THEN [err |-> r.err, db |-> d]
             ELSE [err |-> OK, db |-> [d EXCEPT !.buckets[bucket] = r.bkt]]

\* kvs.Put
PutCall(d, bucket, key, value) ==
    IF value = NilV THEN [err |-> ErrBadValue, db |-> d]
    ELSE LET ab == AddBucketTx(d, bucket)
         IN  IF ab.err # OK THEN ab
             ELSE IF ~CanEncode(value) THEN [err |-> OK, db |-> ab.db]
             ELSE PutTx(ab.db, bucket, key, Encode(value))

\* kvs.Get
GetCall(d, bucket, key, dest) ==
    IF ~d.open THEN [err |-> ErrDatabaseNotOpen, dest |-> dest]
    ELSE IF bucket \notin DOMAIN d.buckets THEN [err |-> Panic, dest |-> dest]
    ELSE LET c == Seek(d.buckets[bucket], key)
         IN  IF c.nil \/ c.k # key THEN [err |-> ErrNotFound, dest |-> dest]
             ELSE IF c.v = NoBytes THEN [err |-> OK, dest |-> dest]
             ELSE Decode(c.v, dest)

\* Delete without the comparison of the key the cursor found: it removes
\* the entry Seek landed on.
DeleteCall_NoCompare(d, bucket, key) ==
    IF ~d.open THEN [err |-> ErrDatabaseNotOpen, db |-> d]
    ELSE IF bucket \notin DOMAIN d.buckets THEN [err |-> Panic, db |-> d]
    ELSE LET c == Seek(d.buckets[bucket], key)
         IN  IF c.nil THEN [err |-> ErrNotFound, db |-> d]
             ELSE [err |-> OK,
                   db |-> [d EXCEPT !.buckets[bucket] = CursorDelete(@, c.k)]]

\* kvs.Delete
DeleteCall(d, bucket, key) ==
    IF ~d.open THEN [err |-> ErrDatabaseNotOpen, db |-> d]
    ELSE IF bucket \notin DOMAIN d.buckets THEN [err |-> Panic, db |-> d]
    ELSE LET c == Seek(d.buckets[bucket], key)
         IN  IF c.nil \/ c.k # key THEN [err |-> ErrNotFound, db |-> d]
             ELSE [err |-> OK,
                   db |-> [d EXCEPT !.buckets[bucket] = CursorDelete(@, c.k)]]

\* kvs.Close
CloseCall(d) == [d EXCEPT !.open = FALSE]

(***************************************************************************)
(* The key cache conf.keys and the poll loop.  Time is counted in ticks.   *)
(***************************************************************************)
Ids == {"x", "y"}
maxTime == 2          \* conf.maxTime, in ticks
sleep == 1            \* conf.sleep, in ticks
MaxNow == 6           \* the clock stops here
MaxBatch == 2         \* pastes in one fetched batch

NoKeys == [x \in {} |-> 0]

\* Recording an identifier as seen at time t.
MarkKey(ks, id, t) == [x \in DOMAIN ks \cup {id} |-> IF x = id THEN t ELSE ks[x]]

\* Has the identifier been recorded?
SeenKey(ks, id) == id \in DOMAIN ks

\* A delete that leaves the key in the map.
DeleteKey_Keep(ks, key) == ks

\* delete(conf.keys, key)
DeleteKey(ks, key) == [x \in DOMAIN ks \ {key} |-> ks[x]]

\* The same test against the poll interval instead of the retention time.
Expired_Sleep(t, stamp) == t - stamp > sleep

\* The same test with >= for >.
Expired_AtMaxTime(t, stamp) == t - stamp >= maxTime

\* the test of cleanKeys on one key
Expired(t, stamp) == t - stamp > maxTime

\* cleanKeys' range loop over the keys still to visit
RECURSIVE CleanLoop(_, _, _)
CleanLoop(ks, todo, t) ==
    IF todo = {} THEN ks
    ELSE LET key == CHOOSE x \in todo : TRUE
         IN  CleanLoop(IF Expired(t, ks[key]) THEN DeleteKey(ks, key) ELSE ks,
                       todo \ {key}, t)

\* cleanKeys, with t the time.Now() it reads on entry
cleanKeys(ks, t) == CleanLoop(ks, DOMAIN ks, t)

\* gone: the identifiers an eviction pass removed
KeyCall(op, id, res, gone) == [op |-> op, id |-> id, res |-> res, gone |-> gone]
NoKeyCall == KeyCall("none", "", FALSE, {})
NoItem == [id |-> "", seen |-> FALSE, handed |-> FALSE]

\* What main's cycle has done since its fetch: how the fetch ended, the
\* pastes handed to Download and Process, whether time.Sleep has returned,
\* and the calls of cleanKeys.
Cycle(fetch, handed, slept, passes) ==
    [fetch |-> fetch, handed |-> handed, slept |-> slept, passes |-> passes]
NoCycle == Cycle("none", 0, FALSE, 0)

\* A call of cleanKeys under way: the time.Now() it read on entry, the keys
\* its range loop has still to visit, and the map it found on entry.
Sweep(on, t, todo, from) == [on |-> on, t |-> t, todo |-> todo, from |-> from]
NoSweep == Sweep(FALSE, 0, {}, NoKeys)

(***************************************************************************)
(* One caller: every call runs to completion before the next.              *)
(***************************************************************************)
Call(op, bucket, key, value, dest0, dest, err) ==
    [op |-> op, bucket |-> bucket, key |-> key, value |-> value,
     dest0 |-> dest0, dest |-> dest, err |-> err]

NoCall == Call("NewKVStore", "", << >>, NilV, DNil, DNil, OK)

\* NewKVStore on a fresh path: an open handle on a file with no buckets.
NewKVStore == [open |-> TRUE, buckets |-> [x \in {} |-> EmptyBucket]]

Procs == 1..NumProcs

Idle == [p \in Procs |-> NoCall]
NoPuts == [e \in ConcBuckets \X ConcKeys |-> {}]

Init ==
    /\ db = NewKVStore
    /\ last = NoCall
    /\ cur = Idle
    /\ puts = NoPuts
    /\ keys = NoKeys
    /\ now = 0
    /\ lastK = NoKeyCall
    /\ pc = "scrape"
    /\ pastes = << >>
    /\ idx = 1
    /\ item = NoItem
    /\ cycle = NoCycle
    /\ sweep = NoSweep

AddBucket(bucket) ==
    LET r == AddBucketTx(db, bucket)
    IN  /\ db' = r.db
        /\ last' = Call("AddBucket", bucket, << >>, NilV, DNil, DNil, r.err)
        /\ UNCHANGED <<concVars, cacheVars, loopVars>>

Put(bucket, key, value) ==
    LET r == PutCall(db, bucket, key, value)
    IN  /\ db' = r.db
        /\ last' = Call("Put", bucket, key, value, DNil, DNil, r.err)
        /\ UNCHANGED <<concVars, cacheVars, loopVars>>

Get(bucket, key, dest) ==
    LET r == GetCall(db, bucket, key, dest)
    IN  /\ db' = db
        /\ last' = Call("Get", bucket, key, NilV, dest, r.dest, r.err)
        /\ UNCHANGED <<concVars, cacheVars, loopVars>>

Delete(bucket, key) ==
    LET r == DeleteCall(db, bucket, key)
    IN  /\ db' = r.db
        /\ last' = Call("Delete", bucket, key, NilV, DNil, DNil, r.err)
        /\ UNCHANGED <<concVars, cacheVars, loopVars>>

Close ==
    /\ db' = CloseCall(db)
    /\ last' = Call("Close", "", << >>, NilV, DNil, DNil, OK)
    /\ UNCHANGED <<concVars, cacheVars, loopVars>>

Next ==
    \/ \E b \in BucketNames : AddBucket(b)
    \/ \E b \in BucketNames, k \in Keys, v \in Values : Put(b, k, v)
    \/ \E b \in BucketNames, k \in Keys, d \in Dests : Get(b, k, d)
    \/ \E b \in BucketNames, k \in Keys : Delete(b, k)
    \/ Close

Spec == Init /\ [][Next]_vars

(***************************************************************************)
(* Concurrent callers.  A transaction (db.Update, db.View) is one step:    *)
(* BoltDB runs one write transaction at a time and gives a read           *)
(* transaction the state some commit left.  Put is two transactions, the  *)
(* one of AddBucket and its own, and other goroutines run between them.    *)
(***************************************************************************)
Running == "running"

\* kvs.AddBucket
ConcAddBucket(p, bucket) ==
    LET r == AddBucketTx(db, bucket)
    IN  /\ cur[p].err # Running
        /\ db' = r.db
        /\ cur' = [cur EXCEPT ![p] =
                      Call("AddBucket", bucket, << >>, NilV, DNil, DNil, r.err)]
        /\ UNCHANGED <<last, puts, cacheVars, loopVars>>

\* kvs.Put up to the return of AddBucket
PutAddBucket(p, bucket, key, value) ==
    LET r == IF value = NilV THEN [err |-> ErrBadValue, db |-> db]
             ELSE AddBucketTx(db, bucket)
    IN  /\ cur[p].err # Running
        /\ db' = r.db
        /\ cur' = [cur EXCEPT ![p] =
                      Call("Put", bucket, key, value, DNil, DNil,
                           IF r.err = OK /\ value # NilV THEN Running
                           ELSE r.err)]
        /\ UNCHANGED <<last, puts, cacheVars, loopVars>>

\* Put calls between their two transactions.
InPut == {q \in Procs : cur[q].op = "Put" /\ cur[q].err = Running}

\* A buffer shared by the calls in flight instead: their encodings mix.
EncodeBuf_Shared(p) ==
    [t |-> Encode(cur[p].value).t,
     f |-> UNION {Encode(cur[q].value).f :
                    q \in {q \in InPut : CanEncode(cur[q].value)}}]

\* the buffer kvs.Put encodes its value into: a local of the call
EncodeBuf(p) == Encode(cur[p].value)

\* kvs.Put from the encoding to the return
PutUpdate(p) ==
    LET c == cur[p]
        r == IF ~CanEncode(c.value) THEN [err |-> OK, db |-> db]
             ELSE PutTx(db, c.bucket, c.key, EncodeBuf(p))
    IN  /\ c.op = "Put" /\ c.err = Running
        /\ db' = r.db
        /\ cur' = [cur EXCEPT ![p].err = r.err]
        /\ puts' = IF r.err = OK /\ CanEncode(c.value)
                   THEN [puts EXCEPT ![<<c.bucket, c.key>>] = @ \cup {c.value}]
                   ELSE puts
        /\ UNCHANGED <<last, cacheVars, loopVars>>

\* kvs.Get
ConcGet(p, bucket, key, dest) ==
    LET r == GetCall(db, bucket, key, dest)
    IN  /\ cur[p].err # Running
        /\ cur' = [cur EXCEPT ![p] =
                      Call("Get", bucket, key, NilV, dest, r.dest, r.err)]
        /\ UNCHANGED <<db, last, puts, cacheVars, loopVars>>

\* kvs.Delete
ConcDelete(p, bucket, key) ==
    LET r == DeleteCall(db, bucket, key)
    IN  /\ cur[p].err # Running
        /\ db' = r.db
        /\ cur' = [cur EXCEPT ![p] =
                      Call("Delete", bucket, key, NilV, DNil, DNil, r.err)]
        /\ puts' = IF r.err = OK
                   THEN [puts EXCEPT ![<<bucket, key>>] = {}]
                   ELSE puts
        /\ UNCHANGED <<last, cacheVars, loopVars>>

NextConc ==
    \E p \in Procs :
        \/ \E b \in ConcBuckets : ConcAddBucket(p, b)
        \/ \E b \in ConcBuckets, k \in ConcKeys, v \in ConcValues \cup {NilV} :
                PutAddBucket(p, b, k, v)
        \/ PutUpdate(p)
        \/ \E b \in ConcBuckets, k \in ConcKeys : ConcGet(p, b, k, ConcDest)
        \/ \E b \in ConcBuckets, k \in ConcKeys : ConcDelete(p, b, k)

SpecConc == Init /\ [][NextConc]_vars

(***************************************************************************)
(* The key cache on its own: marks, membership tests and eviction passes   *)
(* in any order, as time passes.                                           *)
(***************************************************************************)
Mark(id) ==
    /\ keys' = MarkKey(keys, id, now)
    /\ lastK' = KeyCall("Mark", id, TRUE, {})
    /\ UNCHANGED <<now, kvVars, concVars, loopVars>>

Seen(id) ==
    /\ lastK' = KeyCall("Seen", id, SeenKey(keys, id), {})
    /\ UNCHANGED <<keys, now, kvVars, concVars, loopVars>>

CleanKeys ==
    /\ keys' = cleanKeys(keys, now)
    /\ lastK' = KeyCall("cleanKeys", "", TRUE, DOMAIN keys \ DOMAIN keys')
    /\ UNCHANGED <<now, kvVars, concVars, loopVars>>

Tick ==
    /\ now < MaxNow
    /\ now' = now + 1
    /\ lastK' = KeyCall("tick", "", TRUE, {})
    /\ UNCHANGED <<keys, kvVars, concVars, loopVars>>

NextCache ==
    \/ \E id \in Ids : Mark(id)
    \/ \E id \in Ids : Seen(id)
    \/ CleanKeys
    \/ Tick

SpecCache == Init /\ [][NextCache]_vars

(***************************************************************************)
(* The poll loop: main calls scrape, sleeps, and calls cleanKeys, forever. *)
(* scrape fetches a batch and hands every paste of it to Download and      *)
(* Process.                                                                *)
(***************************************************************************)
FetchOutcomes ==
    {"network error", "http status", "read error", "malformed", "ok"}

\* a batch lists pastes with distinct keys
Batches ==
    {b \in UNION {[1..n -> Ids] : n \in 0..MaxBatch} :
        \A m, n \in DOMAIN b : m # n => b[m] # b[n]}

\* get without the test of the status code: the body of an error response
\* is read and returned.
get_NoStatusCheck(outcome, batch) ==
    IF outcome \in {"network error", "read error"}
        THEN [kind |-> "empty", items |-> << >>]
    ELSE IF outcome = "malformed" THEN [kind |-> "malformed", items |-> << >>]
    ELSE [kind |-> "json", items |-> batch]

\* get: the body read, or no bytes when the request, the status or the
\* read failed
get(outcome, batch) ==
    IF outcome \in {"network error", "http status", "read error"}
        THEN [kind |-> "empty", items |-> << >>]
    ELSE IF outcome = "malformed" THEN [kind |-> "malformed", items |-> << >>]
    ELSE [kind |-> "json", items |-> batch]

\* json.Unmarshal(resp, &pastes)
Unmarshal(resp) ==
    IF resp.kind = "json" THEN [err |-> FALSE, pastes |-> resp.items]
    ELSE [err |-> TRUE, pastes |-> << >>]

\* p.Download(); p.Process(): the paste is downloaded and processed, and
\* its key is recorded in conf.keys with the time.
DownloadProcess(ks, id, t) == MarkKey(ks, id, t)

\* scrape up to its loop
ScrapeFetch ==
    /\ pc = "scrape"
    /\ \E outcome \in FetchOutcomes, batch \in Batches :
           LET u == Unmarshal(get(outcome, batch))
           IN  /\ pastes' = u.pastes
               /\ pc' = IF u.err \/ Len(u.pastes) = 0 THEN "sleep" ELSE "loop"
               /\ cycle' = Cycle(outcome, 0, FALSE, 0)
    /\ idx' = 1
    /\ UNCHANGED <<item, sweep, cacheVars, kvVars, concVars>>

\* one round of scrape's loop
ScrapeItem ==
    /\ pc = "loop"
    /\ LET id == pastes[idx]
       IN  /\ item' = [id |-> id, seen |-> SeenKey(keys, id), handed |-> TRUE]
           /\ keys' = DownloadProcess(keys, id, now)
    /\ idx' = idx + 1
    /\ pc' = IF idx = Len(pastes) THEN "sleep" ELSE "loop"
    /\ cycle' = [cycle EXCEPT !.handed = @ + 1]
    /\ UNCHANGED <<pastes, sweep, now, lastK, kvVars, concVars>>

\* A loop that goes from the sleep straight to the next scrape.
MainSleep_SkipClean ==
    /\ pc = "sleep"
    /\ \E t \in (now + sleep)..MaxNow : now' = t
    /\ pc' = "scrape"
    /\ cycle' = [cycle EXCEPT !.slept = TRUE]
    /\ UNCHANGED <<keys, lastK, pastes, idx, item, sweep, kvVars, concVars>>

\* time.Sleep(conf.sleep): returns after at least conf.sleep
MainSleep ==
    /\ pc = "sleep"
    /\ \E t \in (now + sleep)..MaxNow : now' = t
    /\ pc' = "cleanKeys"
    /\ cycle' = [cycle EXCEPT !.slept = TRUE]
    /\ UNCHANGED <<keys, lastK, pastes, idx, item, sweep, kvVars, concVars>>

\* main's call of cleanKeys
MainCleanKeys ==
    /\ pc = "cleanKeys"
    /\ keys' = cleanKeys(keys, now)
    /\ pc' = "scrape"
    /\ cycle' = [cycle EXCEPT !.passes = @ + 1]
    /\ UNCHANGED <<now, lastK, pastes, idx, item, sweep, kvVars, concVars>>

\* Time passes while scrape runs.  The clock's last ticks are left to
\* time.Sleep, so that the cycle under way at the clock's end completes.
ScrapeTick ==
    /\ pc \in {"scrape", "loop"}
    /\ now + sleep < MaxNow
    /\ now' = now + 1
    /\ UNCHANGED <<keys, lastK, loopVars, kvVars, concVars>>

NextPoll ==
    \/ ScrapeFetch
    \/ ScrapeItem
    \/ MainSleep
    \/ MainCleanKeys
    \/ ScrapeTick

SpecPoll == Init /\ [][NextPoll]_vars

\* The loop with every step of it terminating: the fetch returns, each
\* paste's Download and Process return, time.Sleep returns, cleanKeys
\* returns.
SpecPollFair ==
    /\ SpecPoll
    /\ WF_vars(ScrapeFetch)
    /\ WF_vars(ScrapeItem)
    /\ WF_vars(MainSleep)
    /\ WF_vars(MainCleanKeys)

(***************************************************************************)
(* The poll loop with cleanKeys' range loop taken one key at a time, in    *)
(* the order Go's map iteration happens to give, while time passes.        *)
(***************************************************************************)
\* cleanKeys run by `go cleanKeys()`: main goes on to the next scrape.
WhileCleanKeys_Go == "scrape"

\* Where main is while cleanKeys runs: inside the call, which it makes as a
\* plain function call and waits for.
WhileCleanKeys == "cleanKeys"

\* cleanKeys is entered: it reads the time and starts to range over the map
SweepBegin ==
    /\ pc = "cleanKeys"
    /\ ~sweep.on
    /\ sweep' = Sweep(TRUE, now, DOMAIN keys, keys)
    /\ pc' = WhileCleanKeys
    /\ UNCHANGED <<keys, now, lastK, pastes, idx, item, cycle, kvVars, concVars>>

\* one round of cleanKeys' range loop
SweepKey ==
    /\ sweep.on
    /\ \E key \in sweep.todo :
           /\ keys' = IF key \in DOMAIN keys /\ Expired(sweep.t, keys[key])
                          THEN DeleteKey(keys, key) ELSE keys
           /\ sweep' = [sweep EXCEPT !.todo = @ \ {key}]
    /\ UNCHANGED <<now, lastK, pc, pastes, idx, item, cycle, kvVars, concVars>>

\* the range loop is over: cleanKeys returns to main's loop
SweepEnd ==
    /\ sweep.on
    /\ sweep.todo = {}
    /\ sweep' = NoSweep
    /\ pc' = IF pc = "cleanKeys" THEN "scrape" ELSE pc
    /\ cycle' = [cycle EXCEPT !.passes = @ + 1]
    /\ UNCHANGED <<keys, now, lastK, pastes, idx, item, kvVars, concVars>>

\* Time passes while cleanKeys runs.
SweepTick ==
    /\ sweep.on
    /\ now + sleep < MaxNow
    /\ now' = now + 1
    /\ UNCHANGED <<keys, lastK, loopVars, kvVars, concVars>>

NextSweep ==
    \/ ScrapeFetch
    \/ ScrapeItem
    \/ MainSleep
    \/ SweepBegin
    \/ SweepKey
    \/ SweepEnd
    \/ ScrapeTick
    \/ SweepTick

SpecSweep == Init /\ [][NextSweep]_vars

(***************************************************************************)
(* Properties of the store under one caller (Spec).                        *)
(***************************************************************************)
StoreOps == {"AddBucket", "Put", "Get", "Delete"}

\* The key has no entry: the bucket does not exist, or holds no such key.
Absent(d, bucket, key) ==
    bucket \notin DOMAIN d.buckets \/ key \notin DOMAIN d.buckets[bucket]

\* A fresh variable of the value's type, as in `var dest T`.
ZeroOf(v) ==
    IF v.kind = "int" THEN IntV(0)
    ELSE IF v.kind = "struct" THEN StructV(0, 0)
    ELSE v

\* C1: on an open store, a Get into a fresh destination right after a Put
\* that returned no error succeeds and yields the value that was put.
C1_PutThenGetYieldsValue ==
    (last.op = "Put" /\ last.err = OK /\ db.open) =>
        LET g == GetCall(db, last.bucket, last.key, Ptr(ZeroOf(last.value)))
        IN  g.err = OK /\ g.dest.elem = last.value

\* C2: on an open store, a Get or Delete of a key that has no entry, the
\* bucket existing or not, returns ErrNotFound.
C2_AbsentIsNotFound ==
    [][(/\ db.open
        /\ last'.op \in {"Get", "Delete"}
        /\ Absent(db, last'.bucket, last'.key))
       => last'.err = ErrNotFound]_vars

\* C3: a Get of key k in bucket b returns ErrNotFound when k has no entry in
\* b, b existing or not, although another bucket holds an entry under k.
C3_BucketIsolation ==
    \A a \in DOMAIN db.buckets :
        (/\ last.op = "Get"
         /\ db.open
         /\ a # last.bucket
         /\ last.key \in DOMAIN db.buckets[a]
         /\ Absent(db, last.bucket, last.key))
        => last.err = ErrNotFound

\* C4: Put of a nil value returns ErrBadValue in every state and changes
\* nothing, and on an open store a Get of the key, if it had no entry,
\* returns ErrNotFound afterwards.
C4_NilPutRejected ==
    [][(last'.op = "Put" /\ last'.value = NilV) =>
        /\ last'.err = ErrBadValue
        /\ db' = db
        /\ (db.open /\ Absent(db, last'.bucket, last'.key)) =>
              \A d \in Dests :
                  GetCall(db', last'.bucket, last'.key, d).err = ErrNotFound
      ]_vars

\* C5: a Delete of a key that has an entry returns no error and removes
\* exactly that entry; in the state it leaves, a Get of the key returns
\* ErrNotFound and a second Delete returns ErrNotFound and changes nothing.
C5_DeleteTwice ==
    [][(/\ last'.op = "Delete"
        /\ db.open
        /\ ~Absent(db, last'.bucket, last'.key))
       => LET b == last'.bucket
              k == last'.key
          IN  /\ last'.err = OK
              /\ DOMAIN db'.buckets = DOMAIN db.buckets
              /\ DOMAIN db'.buckets[b] = DOMAIN db.buckets[b] \ {k}
              /\ \A d \in Dests : GetCall(db', b, k, d).err = ErrNotFound
              /\ DeleteCall(db', b, k) = [err |-> ErrNotFound, db |-> db']
      ]_vars

C5_Witness ==
    /\ last.op = "Delete"
    /\ last.err = OK
    /\ last.bucket \in DOMAIN db.buckets
    /\ last.key \notin DOMAIN db.buckets[last.bucket]

\* C6: Close leaves the store closed, and once the store is closed no call
\* changes the buckets or entries or reopens it, and AddBucket, Put, Get and
\* Delete each return an error.
C6_ClosedFails ==
    [][/\ last'.op = "Close" => ~db'.open
       /\ ~db.open =>
            /\ db' = db
            /\ last'.op \in StoreOps => last'.err \notin {OK, Panic}
      ]_vars

C6_Witness ==
    /\ ~db.open
    /\ last.op = "Put"
    /\ last.value = IntV(42)
    /\ last.err = ErrDatabaseNotOpen

(***************************************************************************)
(* Properties of the store under concurrent callers (SpecConc).            *)
(***************************************************************************)
\* C7: under every interleaving of Put, Delete and Get calls, every stored
\* entry is the whole encoding of one value that was put, every Get that
\* succeeds yields one such value whole, and an entry that was put and not
\* removed since holds exactly one of the values put to it.
C7_NoPartialWrite ==
    /\ \A b \in DOMAIN db.buckets : \A k \in DOMAIN db.buckets[b] :
           \E v \in ConcValues : db.buckets[b][k] = Encode(v)
    /\ \A p \in Procs :
           (cur[p].op = "Get" /\ cur[p].err = OK) =>
               cur[p].dest.elem \in ConcValues
    /\ \A b \in ConcBuckets, k \in ConcKeys :
           puts[<<b, k>>] # {} =>
               /\ ~Absent(db, b, k)
               /\ \E v \in puts[<<b, k>>] : db.buckets[b][k] = Encode(v)

\* Two goroutines' Puts of different values to one entry have both
\* returned, with no removal of the entry since the earlier one.
C7_Witness ==
    \E p, q \in Procs :
        /\ cur[p].op = "Put" /\ cur[p].err = OK
        /\ cur[q].op = "Put" /\ cur[q].err = OK
        /\ p # q
        /\ cur[p].bucket = cur[q].bucket /\ cur[p].key = cur[q].key
        /\ cur[p].value # cur[q].value
        /\ puts[<<cur[p].bucket, cur[p].key>>] = ConcValues

(***************************************************************************)
(* Properties of the poll loop (SpecPoll) and of the key cache (SpecCache).*)
(***************************************************************************)
\* C8: a round of scrape's loop hands its paste to Download and Process
\* only if the paste's identifier is not in the cache, and the identifier
\* is in the cache once the paste was handed over.
C8_HandedOnlyIfNotSeen ==
    [][(pc = "loop" /\ idx' = idx + 1) =>
        /\ item'.id = pastes[idx]
        /\ item'.handed => ~SeenKey(keys, pastes[idx])
        /\ item'.handed => SeenKey(keys', pastes[idx])
      ]_vars

\* C9: an eviction pass removes every record whose age exceeds maxTime,
\* keeps every other record with its time, age maxTime included, and adds
\* none.
C9_EvictExactlyStale ==
    [][lastK'.op = "cleanKeys" =>
        \A id \in Ids :
            IF id \in DOMAIN keys /\ now - keys[id] > maxTime
                THEN id \notin DOMAIN keys'
            ELSE IF id \in DOMAIN keys
                THEN id \in DOMAIN keys' /\ keys'[id] = keys[id]
            ELSE id \notin DOMAIN keys'
      ]_vars

\* A pass removed a record and kept one whose age is exactly maxTime.
C9_Witness ==
    /\ lastK.op = "cleanKeys"
    /\ lastK.gone # {}
    /\ \E id \in DOMAIN keys : now - keys[id] = maxTime

\* C10: a mark records the identifier with the time; a membership test
\* answers whether the identifier is recorded and changes nothing; a record
\* leaves the cache only in an eviction pass at which its age exceeds
\* maxTime, and does leave in that pass; it enters, or gets a new time, only
\* by a mark of its identifier.
C10_SeenUntilStaleEviction ==
    [][\A id \in Ids :
        /\ (lastK'.op = "Mark" /\ lastK'.id = id) =>
              SeenKey(keys', id) /\ keys'[id] = now
        /\ (lastK'.op = "Seen" /\ lastK'.id = id) =>
              keys' = keys /\ lastK'.res = SeenKey(keys, id)
        /\ (SeenKey(keys, id) /\ ~SeenKey(keys', id)) =>
              lastK'.op = "cleanKeys" /\ now - keys[id] > maxTime
        /\ (SeenKey(keys, id) /\ lastK'.op = "cleanKeys"
                /\ now - keys[id] > maxTime) => ~SeenKey(keys', id)
        /\ (SeenKey(keys', id) /\ (~SeenKey(keys, id) \/ keys'[id] # keys[id]))
              => lastK'.op = "Mark" /\ lastK'.id = id
      ]_vars

\* A membership test answered true for a record older than maxTime that no
\* eviction pass has met yet.
C10_Witness ==
    /\ lastK.op = "Seen"
    /\ lastK.res
    /\ SeenKey(keys, lastK.id)
    /\ now - keys[lastK.id] > maxTime

\* The fetch of the present cycle failed.
FetchFailed == cycle.fetch \in FetchOutcomes \ {"ok"}

\* C11: when the fetch of a cycle fails (request error, status other than
\* 200, unreadable body, payload that does not parse), scrape returns with
\* no paste handed to Download and Process and without a second fetch, and
\* the loop is never stopped: it goes on to the sleep, then to cleanKeys,
\* then to the next cycle's fetch.
C11_FailedFetchSkipsCycle ==
    [][/\ (pc = "scrape" /\ cycle' # cycle /\ cycle'.fetch # "ok") =>
            /\ pc' = "sleep"
            /\ pastes' = << >>
            /\ keys' = keys /\ item' = item
       /\ FetchFailed =>
            /\ cycle.handed = 0
            /\ pc \in {"sleep", "cleanKeys", "scrape"}
            /\ pc = "sleep" =>
                  /\ now + sleep <= MaxNow => ENABLED MainSleep
                  /\ pc' = "cleanKeys" /\ cycle'.fetch = cycle.fetch
            /\ pc = "cleanKeys" =>
                  /\ ENABLED MainCleanKeys
                  /\ pc' = "scrape" /\ cycle'.fetch = cycle.fetch
            /\ pc = "scrape" =>
                  /\ ENABLED ScrapeFetch
                  /\ cycle.slept /\ cycle.passes = 1
      ]_vars

\* A cycle whose payload did not parse has slept and called cleanKeys, no
\* paste handed over, and the loop is at the next cycle's fetch with the
\* records of earlier cycles still in the cache.
C11_Witness ==
    /\ cycle = Cycle("malformed", 0, TRUE, 1)
    /\ pc = "scrape"
    /\ keys # NoKeys

\* C18: main's loop runs scrape (the fetch and the hand-over of its
\* pastes), then the sleep of at least conf.sleep, then cleanKeys, then
\* scrape again: cleanKeys is not called while scrape runs or during the
\* sleep, it is called once in a cycle, after the sleep has returned,
\* and a fetch other than the first follows a cycle that has slept and
\* called cleanKeys once, whether its own fetch failed or not.
C18_LoopOrder ==
    [][/\ pc \in {"scrape", "loop"} =>
            /\ pc' \in {"scrape", "loop", "sleep"}
            /\ cycle'.passes = IF cycle' # cycle THEN 0 ELSE cycle.passes
       /\ pc = "sleep" =>
            /\ ~cycle.slept /\ cycle.passes = 0
            /\ pc' = "cleanKeys"
            /\ now' >= now + sleep
            /\ keys' = keys
       /\ pc = "cleanKeys" =>
            /\ cycle.slept /\ cycle.passes = 0
            /\ pc' = "scrape"
            /\ keys' = cleanKeys(keys, now) /\ now' = now
            /\ cycle' = [cycle EXCEPT !.passes = 1]
       /\ (pc = "scrape" /\ cycle' # cycle) =>
            /\ cycle = NoCycle \/ (cycle.slept /\ cycle.passes = 1)
            /\ ~cycle'.slept /\ cycle'.passes = 0
      ]_vars

\* A cycle whose fetch got an error status has slept and called cleanKeys
\* once, and a paste handed over in an earlier cycle has left the cache.
C18_Witness ==
    /\ pc = "scrape"
    /\ cycle = Cycle("http status", 0, TRUE, 1)
    /\ item.handed
    /\ ~SeenKey(keys, item.id)

EvictableTimes == 0..(MaxNow - maxTime - sleep)

\* C20: when the steps of the loop all terminate, a record marked at time t
\* and not marked again is removed in the end: no record older than maxTime
\* is left by a call of cleanKeys, so the record is gone after the first
\* call later than t + maxTime, and such a call comes.
C20_StaleEventuallyEvicted ==
    /\ [][pc = "cleanKeys" =>
            \A id \in DOMAIN keys' : now - keys'[id] <= maxTime]_vars
    /\ \A id \in Ids, t \in EvictableTimes :
           (SeenKey(keys, id) /\ keys[id] = t)
               ~> (~SeenKey(keys, id) \/ keys[id] # t)

\* The paste handed over in the cycle that has just called cleanKeys is no
\* longer in the cache: the cycle's sleep outlasted maxTime.
C20_Witness ==
    /\ pc = "scrape"
    /\ cycle.fetch = "ok" /\ cycle.handed > 0 /\ cycle.passes = 1
    /\ item.handed
    /\ ~SeenKey(keys, item.id)

(***************************************************************************)
(* Further properties of the store under one caller (Spec).                *)
(***************************************************************************)
\* C12: on an open store, a Put under the empty key of a value gob encodes
\* returns no error, and a Get of the empty key into a fresh destination
\* then returns no error and yields the value.
C12_EmptyKeyIsValid ==
    [][(/\ db.open
        /\ last'.op = "Put"
        /\ last'.key = KeyEmpty
        /\ CanEncode(last'.value))
       => /\ last'.err = OK
          /\ LET g == GetCall(db', last'.bucket, KeyEmpty,
                              Ptr(ZeroOf(last'.value)))
             IN  g.err = OK /\ g.dest.elem = last'.value
      ]_vars

\* C13: a Put that returns an error leaves the store as it was: the same
\* buckets, each with the same entries.
C13_FailedPutChangesNothing ==
    [][(last'.op = "Put" /\ last'.err # OK) => db' = db]_vars

\* C14: when Put returns no error, the entry under its bucket and key holds
\* the encoding of its value; so a value that cannot be encoded is never
\* answered with no error.
C14_PutSuccessMeansWritten ==
    [][(last'.op = "Put" /\ last'.err = OK) =>
        /\ CanEncode(last'.value)
        /\ ~Absent(db', last'.bucket, last'.key)
        /\ db'.buckets[last'.bucket][last'.key] = Encode(last'.value)
      ]_vars

\* C15: on an open store, a Get with a nil destination returns no error
\* when the key has an entry in the bucket and ErrNotFound when it has none,
\* the bucket existing or not; it leaves the destination nil and the store
\* as it was.
C15_NilDestIsPresenceTest ==
    [][(/\ db.open
        /\ last'.op = "Get"
        /\ last'.dest0 = DNil)
       => /\ last'.err = IF Absent(db, last'.bucket, last'.key)
                             THEN ErrNotFound ELSE OK
          /\ last'.dest = DNil
          /\ db' = db
      ]_vars

\* C16: on an open store, a Get or Delete of a key that has no entry in a
\* bucket holding keys ordered after it (keys it is a proper prefix of among
\* them) returns ErrNotFound and changes neither the store nor the
\* destination; and a Delete, whatever it returns, leaves every entry other
\* than the one under its bucket and key in place, unchanged, and adds none.
C16_ExactKeyMatch ==
    [][/\ (/\ db.open
           /\ last'.op \in {"Get", "Delete"}
           /\ last'.bucket \in DOMAIN db.buckets
           /\ last'.key \notin DOMAIN db.buckets[last'.bucket]
           /\ \E x \in DOMAIN db.buckets[last'.bucket] :
                  BytesLess(last'.key, x))
          => /\ last'.err = ErrNotFound
             /\ db' = db
             /\ last'.dest = last'.dest0
       /\ last'.op = "Delete" =>
            /\ DOMAIN db'.buckets = DOMAIN db.buckets
            /\ \A b \in DOMAIN db.buckets :
                  /\ DOMAIN db'.buckets[b] \subseteq DOMAIN db.buckets[b]
                  /\ \A x \in DOMAIN db.buckets[b] :
                        (b # last'.bucket \/ x # last'.key) =>
                            /\ x \in DOMAIN db'.buckets[b]
                            /\ db'.buckets[b][x] = db.buckets[b][x]
      ]_vars

\* Delete("k") answered ErrNotFound on a bucket that holds "kx", and "kx"
\* is still there.
C16_Witness ==
    /\ last.op = "Delete"
    /\ last.key = KeyK
    /\ last.err = ErrNotFound
    /\ last.bucket \in DOMAIN db.buckets
    /\ KeyKx \in DOMAIN db.buckets[last.bucket]

(***************************************************************************)
(* Further properties of the store under concurrent callers (SpecConc).    *)
(***************************************************************************)
\* AddBucket in state d leaves every bucket that existed with the entries
\* it had, and a second AddBucket right after it changes nothing and returns
\* the same; a bucket that exists is answered with no error and no change;
\* the empty name is refused and nothing is made; any other name is
\* answered with no error and is the only bucket made.
AddBucketIdempotent(d, bucket) ==
    LET r == AddBucketTx(d, bucket)
    IN  /\ \A x \in DOMAIN d.buckets :
              x \in DOMAIN r.db.buckets /\ r.db.buckets[x] = d.buckets[x]
        /\ AddBucketTx(r.db, bucket) = r
        /\ bucket \in DOMAIN d.buckets => r = [err |-> OK, db |-> d]
        /\ IF bucket = NoName
               THEN r = [err |-> ErrBucketNameRequired, db |-> d]
           ELSE /\ r.err = OK
                /\ DOMAIN r.db.buckets = DOMAIN d.buckets \cup {bucket}

\* C17: in every state goroutines calling AddBucket, Put, Get and Delete in
\* any interleaving reach, AddBucket of a bucket that exists would return no
\* error and change nothing, once or repeated, and AddBucket of any name,
\* the empty one that bolt refuses included, would leave every existing
\* bucket's entries as they are; every AddBucket a goroutine makes returns
\* no error and, when the bucket exists, changes nothing; a Put between its
\* two transactions finds its bucket; and every entry put with success and
\* not removed since is in the bucket, holding one of the values put.
C17_AddBucketIdempotent ==
    /\ [](/\ \A b \in BucketNames : AddBucketIdempotent(db, b)
          /\ NoName \notin DOMAIN db.buckets
          /\ \A p \in InPut : cur[p].bucket \in DOMAIN db.buckets
          /\ \A b \in ConcBuckets, k \in ConcKeys :
                puts[<<b, k>>] # {} =>
                    /\ ~Absent(db, b, k)
                    /\ db.buckets[b][k] \in {Encode(v) : v \in puts[<<b, k>>]})
    /\ [][\A p \in Procs :
            (cur'[p] # cur[p] /\ cur'[p].op = "AddBucket") =>
                /\ cur'[p].err = OK
                /\ cur'[p].bucket \in DOMAIN db'.buckets
                /\ cur'[p].bucket \in DOMAIN db.buckets => db' = db
          ]_vars

\* One goroutine's AddBucket and another's Put on the same bucket have
\* both returned, and the entry put is in the bucket.
C17_Witness ==
    \E p, q \in Procs :
        /\ cur[p].op = "AddBucket" /\ cur[p].err = OK
        /\ cur[q].op = "Put" /\ cur[q].err = OK
        /\ cur[q].bucket = cur[p].bucket
        /\ puts[<<cur[q].bucket, cur[q].key>>] = {cur[q].value}
        /\ ~Absent(db, cur[q].bucket, cur[q].key)

====
